---- MODULE Spec2Model ----
(***************************************************************************)
(* A model of the reverse image search notebook                            *)
(* (reverse-image-search-engine.ipynb): the embedding call, the ingestion  *)
(* cells, the region extractor and the KNN search cell, run once and run   *)
(* by concurrent threads.                                                  *)
(*                                                                         *)
(* Python values are tagged records: None is [t |-> "None"], a str is      *)
(* [t |-> "str", v |-> <<characters>>], a list is [t |-> "list", v |-> s]. *)
(* External services (Bedrock, S3, OpenSearch, Rekognition, PIL) are       *)
(* modelled at their interface: what they return is an input of the        *)
(* action that calls them; the calls made inside the batch loops and the   *)
(* embedding and search calls may raise.                                   *)
(***************************************************************************)
EXTENDS Integers, Sequences, FiniteSets, TLC

\* ------------------------------------------------------------------ bounds
\* number of distinct images / object keys of the bucket
MaxKeys == 3
\* dimension of the vectors the embedding model returns (toy value)
D == 2
\* direct calls of create_image_embedding in SpecEmbed
MaxCalls == 2
\* executions of the ingestion cells in SpecIngest
MaxRuns == 2
\* (box, label) pairs the detector returns for one image
MaxBoxes == 3
\* calls of extract_objects in SpecExtract
MaxExtractCalls == 2
\* box coordinates are multiples of 1/Den, image sides are at most MaxSide
Den == 4
MaxSide == 5
\* documents in the index when the query cells run
MaxDocs == 3
\* largest K_SEARCHES tried
MaxK == 3
\* similarity scores are 1 .. MaxScore
MaxScore == 2

\* SpecConcurrent: documents of the index, and threads running cell 6.1
ConcDocs == 2
Threads == 2

VARIABLES
    bedrock_calls,      \* number of bedrock_client.invoke_model calls made
    emb_trace,          \* SpecEmbed: one record per call of create_image_embedding
    bucket,             \* keys of the objects stored in the S3 bucket
    ing_pc,             \* position in the ingestion cells
    ing_error,          \* the call that raised in the current ingestion run
    runs,               \* ingestion runs started
    contents,           \* keys listed by s3.list_objects_v2
    obj_i,              \* objects of `contents` the embed loop has taken
    image_embeddings,   \* list built by cell 2.2
    image_file_names,   \* list built by cell 2.2
    final_embeddings_dataset, \* rows (image_key, image_embedding) of cell 2.3
    row_i,              \* rows the write loop of cell 3.3 has taken
    index_docs,         \* documents of the OpenSearch index, in write order
    ext_pc,             \* position in extract_objects
    ext_calls,          \* calls of extract_objects made
    image_size,         \* <<image.width, image.height>> of the opened image
    boxes,              \* notebook global: boxes returned by detect_objects
    labels,             \* notebook global: labels returned by detect_objects
    box_i,              \* (box, label) pairs the loop has taken
    crop_count,         \* local counter of extract_objects
    saved,              \* files saved by the current call, in order
    qry_pc,             \* position in the query cells (5, 6.1, 6.2)
    qry_error,          \* the exception the last query cell ended with
    object_embedding,   \* notebook global set by cell 5
    K_SEARCHES,         \* notebook global set by cell 6.1
    search_calls,       \* number of client.search calls made
    knn_response,       \* knn_response["hits"]["hits"]
    hit_i,              \* hits the dedup loop has taken
    result,             \* notebook global: list of [item_id_, score]
    scores_tracked,     \* notebook global: set of scores already emitted
    file_i,             \* entries of image_files the download loop has taken
    downloaded,         \* keys fetched by s3.download_file, in order
    thread_pc,          \* SpecConcurrent: the statement of cell 6.1 each thread is at
    thread_response,    \* what client.search returned to each thread
    thread_iter,        \* the list each thread's `for` iterates over
    thread_pos,         \* position of each thread's iterator
    thread_out,         \* the result list each thread printed
    cell_names          \* notebook globals hit, score, item_id_, final_item

vars == <<bedrock_calls, emb_trace, bucket, ing_pc, ing_error, runs, contents, obj_i,
          image_embeddings, image_file_names, final_embeddings_dataset, row_i,
          index_docs, ext_pc, ext_calls, image_size, boxes, labels, box_i,
          crop_count, saved, qry_pc, qry_error, object_embedding, K_SEARCHES,
          search_calls, knn_response, hit_i, result, scores_tracked, file_i,
          downloaded, thread_pc, thread_response, thread_iter, thread_pos,
          thread_out, cell_names>>

concVars == <<thread_pc, thread_response, thread_iter, thread_pos, thread_out, cell_names>>
extVars == <<ext_pc, ext_calls, image_size, boxes, labels, box_i, crop_count, saved>>
embVars == <<bedrock_calls, emb_trace>>
qryVars == <<qry_pc, qry_error, object_embedding, K_SEARCHES, search_calls, knn_response,
             hit_i, result, scores_tracked, file_i, downloaded>>
\* what the ingestion cells leave alone
notIngest == <<emb_trace, extVars, qryVars, concVars>>
ingVars == <<bucket, ing_pc, ing_error, runs, contents, obj_i, image_embeddings,
             image_file_names, final_embeddings_dataset, row_i, index_docs>>

\* ------------------------------------------------------------ Python values
None == [t |-> "None"]
Str(s) == [t |-> "str", v |-> s]
List(s) == [t |-> "list", v |-> s]
IsNone(x) == x.t = "None"

Keys == 1 .. MaxKeys

\* The bytes of the image stored under key k (after resize_image), and the
\* text base64.b64encode(...).decode('utf-8') makes of a byte string: one or
\* more characters per byte, none for no bytes.
ImageBytes(k) == <<k>>
b64encode(bytes) == Str([j \in 1 .. Len(bytes) |-> <<"b64", bytes[j]>>])

\* The vector the embedding model computes for a base64 image text: D
\* components, determined by the image.
EmbeddingOf(image) == List([j \in 1 .. D |-> image.v[1][2]])

\* What bedrock_client.invoke_model can answer for a request body: a payload
\* with "embedding", a payload with "message", or an exception.  An empty
\* inputImage has no embedding.
OkPayload(image) == [kind |-> "payload", embedding |-> EmbeddingOf(image), message |-> None]
ErrPayload == [kind |-> "payload", embedding |-> None, message |-> Str(<<"err">>)]
Raises == [kind |-> "raise", embedding |-> None, message |-> None]
Responses(image) ==
    IF IsNone(image) THEN {Raises}
    ELSE IF image.v = <<>> THEN {ErrPayload, Raises}
    ELSE {OkPayload(image), ErrPayload, Raises}

\* ------------------------------------------------- create_image_embedding
\* `image is not None` (line 116)
InputAccepted(image) == ~IsNone(image)

\* what the function does once the payload is read (lines 134-140): the
\* error is printed, and final_response.get("embedding") is returned
AfterPayload(resp) ==
    [outcome |-> "return", value |-> resp.embedding,
     printed |-> ~IsNone(resp.message)]

\* The whole function, for one argument and one answer of the service:
\* outcome "return" with the returned value, or the exception that leaves it;
\* invoked tells whether invoke_model was called.
create_image_embedding(image, resp) ==
    IF ~InputAccepted(image)
    THEN [outcome |-> "ValueError", value |-> None, printed |-> FALSE,
          invoked |-> FALSE, error_payload |-> FALSE]
    ELSE IF resp.kind = "raise"
    THEN [outcome |-> "ClientError", value |-> None, printed |-> FALSE,
          invoked |-> TRUE, error_payload |-> FALSE]
    ELSE [outcome |-> AfterPayload(resp).outcome,
          value |-> AfterPayload(resp).value,
          printed |-> AfterPayload(resp).printed,
          invoked |-> TRUE, error_payload |-> ~IsNone(resp.message)]

\* --------------------------------------------------------------- SpecEmbed
\* create_image_embedding called directly, with every kind of argument.
ImageInputs == {None, Str(<<>>)} \cup {b64encode(ImageBytes(k)) : k \in Keys}

IngestIdle ==
    /\ bucket = {}
    /\ ing_pc = "idle" /\ ing_error = "none" /\ runs = 0
    /\ contents = <<>> /\ obj_i = 0
    /\ image_embeddings = <<>> /\ image_file_names = <<>>
    /\ final_embeddings_dataset = <<>> /\ row_i = 0
    /\ index_docs = <<>>

ExtractNotCalled ==
    /\ ext_pc = "idle" /\ ext_calls = 0
    /\ box_i = 0 /\ crop_count = 0 /\ saved = <<>>

ExtractIdle ==
    /\ image_size = <<0, 0>>
    /\ boxes = <<>> /\ labels = <<>>
    /\ ExtractNotCalled

ThreadIds == 1 .. Threads

ConcIdle ==
    /\ thread_pc = [p \in ThreadIds |-> "idle"]
    /\ thread_response = [p \in ThreadIds |-> <<>>]
    /\ thread_iter = [p \in ThreadIds |-> <<>>]
    /\ thread_pos = [p \in ThreadIds |-> 0]
    /\ thread_out = [p \in ThreadIds |-> <<>>]
    /\ cell_names = [hit |-> None, score |-> None, item_id_ |-> None, final_item |-> None]

QueryIdle ==
    /\ qry_pc = "idle" /\ qry_error = "none"
    /\ object_embedding = None
    /\ K_SEARCHES = 0 /\ search_calls = 0
    /\ knn_response = <<>> /\ hit_i = 0
    /\ result = <<>> /\ scores_tracked = {}
    /\ file_i = 0 /\ downloaded = <<>>

InitEmbed ==
    /\ bedrock_calls = 0
    /\ emb_trace = <<>>
    /\ IngestIdle
    /\ ExtractIdle
    /\ QueryIdle
    /\ ConcIdle

CallEmbed ==
    /\ Len(emb_trace) < MaxCalls
    /\ \E image \in ImageInputs :
         \E resp \in Responses(image) :
           LET r == create_image_embedding(image, resp) IN
             /\ emb_trace' = Append(emb_trace, [image |-> image, result |-> r])
             /\ bedrock_calls' = bedrock_calls + (IF r.invoked THEN 1 ELSE 0)
    /\ UNCHANGED <<ingVars, extVars, qryVars, concVars>>

NextEmbed == CallEmbed

SpecEmbed == InitEmbed /\ [][NextEmbed]_vars

\* C2: whenever the payload of the embedding service carries "message",
\* create_image_embedding raises; it does not return a value.
C2_ErrorPayloadRaises ==
    \A j \in DOMAIN emb_trace :
        emb_trace[j].result.error_payload => emb_trace[j].result.outcome # "return"

\* C9: an empty argument (None or the empty string) is rejected with the
\* invalid-input error and invoke_model is not called for it.
C9_EmptyInputRejected ==
    \A j \in DOMAIN emb_trace :
        (IsNone(emb_trace[j].image) \/ emb_trace[j].image.v = <<>>)
            => /\ emb_trace[j].result.outcome = "ValueError"
               /\ ~emb_trace[j].result.invoked

\* -------------------------------------------------------------- SpecIngest
\* Cells 2.2, 2.3 and 3.3 run in order; an exception ends the run; the cells
\* can be run again.

\* list_objects_v2 lists the keys in ascending order
SortedKeys(S) ==
    CHOOSE s \in [1 .. Cardinality(S) -> S] :
        \A a, b \in 1 .. Cardinality(S) : a < b => s[a] < s[b]

InitIngest ==
    /\ bedrock_calls = 0
    /\ emb_trace = <<>>
    /\ bucket \in SUBSET Keys
    /\ ing_pc = "idle" /\ ing_error = "none" /\ runs = 0
    /\ contents = <<>> /\ obj_i = 0
    /\ image_embeddings = <<>> /\ image_file_names = <<>>
    /\ final_embeddings_dataset = <<>> /\ row_i = 0
    /\ index_docs = <<>>
    /\ ExtractIdle
    /\ QueryIdle
    /\ ConcIdle

\* lines 159-164: list the bucket, empty the two lists
ListBucket ==
    /\ ing_pc \in {"idle", "done", "aborted"}
    /\ runs < MaxRuns
    /\ runs' = runs + 1
    /\ contents' = SortedKeys(bucket)
    /\ obj_i' = 0
    /\ image_embeddings' = <<>>
    /\ image_file_names' = <<>>
    /\ ing_pc' = "embed"
    /\ ing_error' = "none"
    /\ UNCHANGED <<bedrock_calls, notIngest, bucket, final_embeddings_dataset,
                   row_i, index_docs>>

\* lines 167-179, one iteration: get_object, resize_image, b64encode,
\* create_image_embedding, the two appends.  Nothing catches an exception.
EmbedObject ==
    /\ ing_pc = "embed"
    /\ obj_i < Len(contents)
    /\ obj_i' = obj_i + 1
    /\ LET key == contents[obj_i + 1]
           base64_encoded_image == b64encode(ImageBytes(key))
       IN \E fail \in {"none", "get_object", "resize_image"} :
            IF fail # "none"
            THEN /\ ing_pc' = "aborted"
                 /\ ing_error' = fail
                 /\ UNCHANGED <<bedrock_calls, image_embeddings, image_file_names>>
            ELSE \E resp \in Responses(base64_encoded_image) :
                   LET r == create_image_embedding(base64_encoded_image, resp) IN
                     /\ bedrock_calls' = bedrock_calls + (IF r.invoked THEN 1 ELSE 0)
                     /\ IF r.outcome = "return"
                        THEN /\ image_embeddings' = Append(image_embeddings, r.value)
                             /\ image_file_names' = Append(image_file_names, key)
                             /\ UNCHANGED <<ing_pc, ing_error>>
                        ELSE /\ ing_pc' = "aborted"
                             /\ ing_error' = "create_image_embedding"
                             /\ UNCHANGED <<image_embeddings, image_file_names>>
    /\ UNCHANGED <<notIngest, bucket, runs, contents, final_embeddings_dataset,
                   row_i, index_docs>>

DataFrame_reversed(keys, embeddings) ==
    [j \in 1 .. Len(keys) |->
        [image_key |-> keys[j],
         image_embedding |-> embeddings[Len(embeddings) + 1 - j]]]

\* line 198: pd.DataFrame({'image_key': ..., 'image_embedding': ...}) makes row j
\* of element j of each list (the lists have equal length, or it raises)
DataFrame(keys, embeddings) ==
    [j \in 1 .. Len(keys) |->
        [image_key |-> keys[j], image_embedding |-> embeddings[j]]]

\* line 198: the loop is over, the DataFrame pairs the two lists by position
BuildDataset ==
    /\ ing_pc = "embed"
    /\ obj_i = Len(contents)
    /\ final_embeddings_dataset' = DataFrame(image_file_names, image_embeddings)
    /\ row_i' = 0
    /\ ing_pc' = "write"
    /\ UNCHANGED <<bedrock_calls, notIngest, bucket, ing_error, runs, contents,
                   obj_i, image_embeddings, image_file_names, index_docs>>

client_index_twice(docs, body) == Append(Append(docs, body), body)

\* line 306: client.index(index=INDEX_NAME, body=body) passes no id, so the
\* index stores the body as a new document under an id of its own
client_index(docs, body) == Append(docs, body)

\* lines 301-306, one iteration
IndexRow ==
    /\ ing_pc = "write"
    /\ row_i < Len(final_embeddings_dataset)
    /\ row_i' = row_i + 1
    /\ LET record == final_embeddings_dataset[row_i + 1]
           body == [vector |-> record.image_embedding, key |-> record.image_key]
       IN \E ok \in BOOLEAN :
            IF ok
            THEN /\ index_docs' = client_index(index_docs, body)
                 /\ UNCHANGED <<ing_pc, ing_error>>
            ELSE /\ ing_pc' = "aborted"
                 /\ ing_error' = "client.index"
                 /\ UNCHANGED index_docs
    /\ UNCHANGED <<bedrock_calls, notIngest, bucket, runs, contents, obj_i,
                   image_embeddings, image_file_names, final_embeddings_dataset>>

\* the write loop is over
IngestDone ==
    /\ ing_pc = "write"
    /\ row_i = Len(final_embeddings_dataset)
    /\ ing_pc' = "done"
    /\ UNCHANGED <<bedrock_calls, notIngest, bucket, ing_error, runs, contents,
                   obj_i, image_embeddings, image_file_names,
                   final_embeddings_dataset, row_i, index_docs>>

NextIngest ==
    \/ ListBucket
    \/ EmbedObject
    \/ BuildDataset
    \/ IndexRow
    \/ IngestDone

SpecIngest == InitIngest /\ [][NextIngest]_vars

\* ------------------------------------------------------------- SpecExtract
\* extract_objects(image_path, boxes, labels), called on the output of
\* detect_objects: two lists of equal length.

\* labels are strings, modelled as sequences of characters
Shoe == <<"S", "h", "o", "e">>
LabelSet ==
    {Shoe, <<"S", "h", "o">>, <<>>, <<"s", "h", "o", "e">>,
     <<"P", "e", "r", "s", "o", "n">>}

\* Rekognition bounding boxes, in units of 1/Den (dyadic, so exact as
\* floats): one inside the image, one reaching past its right and bottom
\* edges, one starting left of and above it.
BoxSet ==
    {[Left |-> 1, Top |-> 1, Width |-> Den - 2, Height |-> Den - 2],
     [Left |-> Den - 1, Top |-> Den - 1, Width |-> Den, Height |-> Den],
     [Left |-> -1, Top |-> -1, Width |-> 2, Height |-> 2]}

ImageSizes == {<<MaxSide, MaxSide - 2>>, <<MaxSide - 1, MaxSide>>}

\* Python's `a in b` for strings: a occurs in b as a contiguous substring
StrIn(a, b) ==
    \E k \in 0 .. (Len(b) - Len(a)) : SubSeq(b, k + 1, k + Len(a)) = a

\* line 485: the pair is skipped when `label not in "Shoe"`
Selected(label) == StrIn(label, Shoe)

\* int(side * n / Den): Python's int() truncates toward zero
PyInt(num, den) == IF num >= 0 THEN num \div den ELSE -((-num) \div den)

\* lines 489-492
CropRect(size, box) ==
    LET left == PyInt(size[1] * box.Left, Den)
        top == PyInt(size[2] * box.Top, Den)
    IN [left |-> left,
        top |-> top,
        right |-> left + PyInt(size[1] * box.Width, Den),
        bottom |-> top + PyInt(size[2] * box.Height, Den)]

\* line 481: the counter is a local, set when the call starts
InitialCropCount_kept(previous) == IF previous = 0 THEN 1 ELSE previous
InitialCropCount(previous) == 1

\* lines 344-374: detect_objects has filled the globals boxes and labels
\* for INPUT_SEARCH_IMAGE, one label per box
InitExtract ==
    /\ bedrock_calls = 0
    /\ emb_trace = <<>>
    /\ IngestIdle
    /\ image_size \in ImageSizes
    /\ \E n \in 0 .. MaxBoxes :
         /\ boxes \in [1 .. n -> BoxSet]
         /\ labels \in [1 .. n -> LabelSet]
    /\ ExtractNotCalled
    /\ QueryIdle
    /\ ConcIdle

\* line 516 and lines 464-481: the cell calls extract_objects on the
\* globals (the cell can be run again); the call opens the image and sets
\* the counter
CallExtract ==
    /\ ext_pc \in {"idle", "done"}
    /\ ext_calls < MaxExtractCalls
    /\ ext_calls' = ext_calls + 1
    /\ box_i' = 0
    /\ crop_count' = InitialCropCount(crop_count)
    /\ saved' = <<>>
    /\ ext_pc' = "loop"
    /\ UNCHANGED <<image_size, boxes, labels>>
    /\ UNCHANGED <<embVars, ingVars, qryVars, concVars>>

\* lines 484-505, one iteration of `for box, label in zip(boxes, labels)`
ExtractBox ==
    /\ ext_pc = "loop"
    /\ box_i < Len(labels)
    /\ box_i' = box_i + 1
    /\ LET box == boxes[box_i + 1]
           label == labels[box_i + 1]
       IN IF ~Selected(label)
          THEN UNCHANGED <<crop_count, saved>>
          ELSE /\ saved' = Append(saved, [file |-> crop_count,
                                          box |-> box_i + 1,
                                          rect |-> CropRect(image_size, box)])
               /\ crop_count' = crop_count + 1
    /\ UNCHANGED ext_pc
    /\ UNCHANGED <<ext_calls, image_size, boxes, labels>>
    /\ UNCHANGED <<embVars, ingVars, qryVars, concVars>>

\* the loop is over and the function returns
ExtractReturn ==
    /\ ext_pc = "loop"
    /\ box_i = Len(labels)
    /\ ext_pc' = "done"
    /\ UNCHANGED <<ext_calls, image_size, boxes, labels, box_i, crop_count, saved>>
    /\ UNCHANGED <<embVars, ingVars, qryVars, concVars>>

NextExtract ==
    \/ CallExtract
    \/ ExtractBox
    \/ ExtractReturn

SpecExtract == InitExtract /\ [][NextExtract]_vars

\* C6: a (box, label) pair is cropped exactly when its label equals "Shoe".
CroppedBoxes == {saved[j].box : j \in DOMAIN saved}
C6_SelectedIffLabelEqualsShoe ==
    \A b \in 1 .. box_i : (b \in CroppedBoxes) <=> (labels[b] = Shoe)

\* C7: every rectangle cropped lies inside the image:
\* 0 <= left <= right <= W and 0 <= top <= bottom <= H.
C7_CropInsideImage ==
    \A j \in DOMAIN saved :
        LET r == saved[j].rect IN
            /\ 0 <= r.left /\ r.left <= r.right /\ r.right <= image_size[1]
            /\ 0 <= r.top /\ r.top <= r.bottom /\ r.bottom <= image_size[2]

\* C8: within one call the cropped boxes are numbered 1, 2, ..., n without
\* gaps, in the order of the detector's list; a skipped pair takes no
\* number; every call starts again at 1.
C8_NumberedFromOneInOrder ==
    /\ \A j \in DOMAIN saved : saved[j].file = j
    /\ \A j, k \in DOMAIN saved : j < k => saved[j].box < saved[k].box
    /\ {saved[j].box : j \in DOMAIN saved}
         = {b \in 1 .. box_i : Selected(labels[b])}
    /\ ext_pc \in {"loop", "done"} => crop_count = Len(saved) + 1

\* C8's case: a second call of the cell, a skipped pair between two cropped
\* ones, the files numbered 1 and 2.
C8_Witness ==
    /\ ext_calls = 2 /\ ext_pc = "done"
    /\ Len(labels) = 3 /\ ~Selected(labels[2])
    /\ Len(saved) = 2 /\ saved[1].box = 1 /\ saved[2].box = 3
    /\ saved[2].file = 2

\* C3: a failure on one item does not abort the batch: when a run has
\* stopped, the embed loop has taken every listed object and the write loop
\* every row.
C3_FailureNeverAborts ==
    ing_pc \in {"done", "aborted"} =>
        /\ obj_i = Len(contents)
        /\ row_i = Len(final_embeddings_dataset)
        /\ Len(final_embeddings_dataset) = Len(contents)

\* C4: the index holds at most one document per image key, also after the
\* ingestion cells are run again over the same bucket.
DocsOfKey(k) == {j \in DOMAIN index_docs : index_docs[j].key = k}
C4_OneDocumentPerKey ==
    \A k \in Keys : Cardinality(DocsOfKey(k)) <= 1

\* C5: every document of the index carries a vector of exactly D components;
\* none carries None.
C5_EveryVectorHasDComponents ==
    \A j \in DOMAIN index_docs :
        /\ index_docs[j].vector.t = "list"
        /\ Len(index_docs[j].vector.v) = D

\* --------------------------------------------------------------- SpecQuery
\* Cell 5 (embed the extracted object), cell 6.1 (KNN search and score
\* dedup) and cell 6.2 (download the results), against an index that earlier
\* ingestion runs have filled.

\* the bytes of the extracted object image (it is none of the bucket's)
QueryImageBytes == <<0>>

\* a document as lines 302-305 build it
Doc(k) == [vector |-> EmbeddingOf(b64encode(ImageBytes(k))), key |-> k]

\* Every sequence of documents is an index ingestion can leave behind (one
\* run per document, over a bucket holding that object alone).
IndexContents == UNION {[1 .. n -> {Doc(k) : k \in Keys}] : n \in 0 .. MaxDocs}

Scores == 1 .. MaxScore

Min(a, b) == IF a <= b THEN a ELSE b

\* line 605: "size": K_SEARCHES
SearchSize_more(k) == k + 1
SearchSize(k) == k

\* What client.search answers (line 622): the `size` best documents that
\* have a vector, best first.  The score of a document is a function of its
\* vector, so documents of one key score alike; equal scores come in any
\* order.  h lists document positions, sc gives each key its score.
Ranked(docs, h, sc, m) ==
    /\ \A a, b \in 1 .. m : a < b =>
          /\ h[a] # h[b]
          /\ sc[docs[h[a]].key] >= sc[docs[h[b]].key]
    /\ \A j \in DOMAIN docs :
          (\A a \in 1 .. m : h[a] # j) =>
              \A a \in 1 .. m : sc[docs[j].key] <= sc[docs[h[a]].key]

HitsOf(docs, h, sc, m) ==
    [a \in 1 .. m |-> [_id |-> h[a],
                       _score |-> sc[docs[h[a]].key],
                       _source |-> docs[h[a]].key]]

client_search(docs, size) ==
    LET m == Min(size, Len(docs)) IN
        {HitsOf(docs, x[1], x[2], m) :
            x \in {y \in [1 .. m -> DOMAIN docs] \X [Keys -> Scores] :
                      Ranked(docs, y[1], y[2], m)}}

\* line 633: `score not in scores_tracked` is false for a tracked score
Tracked_never(score, tracked) == FALSE
Tracked(score, tracked) == score \in tracked

InitQuery ==
    /\ bedrock_calls = 0
    /\ emb_trace = <<>>
    /\ bucket = {}
    /\ ing_pc = "idle" /\ ing_error = "none" /\ runs = 0
    /\ contents = <<>> /\ obj_i = 0
    /\ image_embeddings = <<>> /\ image_file_names = <<>>
    /\ final_embeddings_dataset = <<>> /\ row_i = 0
    /\ index_docs \in IndexContents
    /\ ExtractIdle
    /\ QueryIdle
    /\ ConcIdle

\* lines 544-551: read the extracted image file (it may be empty), embed it
\* and print the first components.  object_embedding is assigned at line 548
\* before `object_embedding[:5]` raises TypeError for None at line 551, so
\* the global is set and cell 6.1 can still be run.
EmbedQuery ==
    /\ qry_pc = "idle"
    /\ \E bytes \in {<<>>, QueryImageBytes} :
         LET base64_encoded_image == b64encode(bytes) IN
           \E resp \in Responses(base64_encoded_image) :
             LET r == create_image_embedding(base64_encoded_image, resp) IN
               /\ bedrock_calls' = bedrock_calls + (IF r.invoked THEN 1 ELSE 0)
               /\ IF r.outcome = "return"
                  THEN /\ object_embedding' = r.value
                       /\ qry_pc' = "embedded"
                       /\ qry_error' = IF IsNone(r.value) THEN "TypeError" ELSE "none"
                  ELSE /\ qry_pc' = "error"
                       /\ qry_error' = r.outcome
                       /\ UNCHANGED object_embedding
    /\ UNCHANGED <<emb_trace, ingVars, concVars, extVars, K_SEARCHES, search_calls,
                   knn_response, hit_i, result, scores_tracked, file_i, downloaded>>

\* lines 609-616: the knn clause of the body.  The index rejects the request
\* (RequestError) when the clause has no vector or when k is not positive.
RequestAccepted(vector, k) == ~IsNone(vector) /\ k > 0

\* lines 601-624: set K_SEARCHES, build the body, call client.search, empty
\* result and scores_tracked.  Nothing is checked before the call; the call
\* raises when the index rejects the request, and it may raise for a
\* failure of the transport.
Search ==
    /\ qry_pc = "embedded"
    /\ \E k \in 0 .. MaxK :
         /\ K_SEARCHES' = k
         /\ search_calls' = search_calls + 1
         /\ IF ~RequestAccepted(object_embedding, k)
            THEN /\ qry_pc' = "error"
                 /\ qry_error' = "RequestError"
                 /\ UNCHANGED <<knn_response, result, scores_tracked, hit_i>>
            ELSE \E ok \in BOOLEAN :
                   IF ok
                   THEN /\ knn_response' \in client_search(index_docs, SearchSize(k))
                        /\ result' = <<>>
                        /\ scores_tracked' = {}
                        /\ hit_i' = 0
                        /\ qry_pc' = "loop"
                        /\ qry_error' = "none"
                   ELSE /\ qry_pc' = "error"
                        /\ qry_error' = "ConnectionError"
                        /\ UNCHANGED <<knn_response, result, scores_tracked, hit_i>>
    /\ UNCHANGED <<embVars, ingVars, concVars, extVars, object_embedding, file_i, downloaded>>

\* lines 627-636, one iteration of `for hit in knn_response["hits"]["hits"]`
DedupHit ==
    /\ qry_pc = "loop"
    /\ hit_i < Len(knn_response)
    /\ hit_i' = hit_i + 1
    /\ LET hit == knn_response[hit_i + 1]
           score == hit._score
           item_id_ == hit._source
       IN IF ~Tracked(score, scores_tracked)
          THEN /\ result' = Append(result, <<item_id_, score>>)
               /\ scores_tracked' = scores_tracked \cup {score}
          ELSE UNCHANGED <<result, scores_tracked>>
    /\ UNCHANGED <<embVars, ingVars, concVars, extVars, qry_pc, qry_error, object_embedding,
                   K_SEARCHES, search_calls, knn_response, file_i, downloaded>>

\* line 639 and lines 665-671: print the result, start the download cell
PrintResult ==
    /\ qry_pc = "loop"
    /\ hit_i = Len(knn_response)
    /\ qry_pc' = "download"
    /\ file_i' = 0
    /\ downloaded' = <<>>
    /\ UNCHANGED <<embVars, ingVars, concVars, extVars, qry_error, object_embedding, K_SEARCHES,
                   search_calls, knn_response, hit_i, result, scores_tracked>>

\* lines 674-683, one iteration of `for file_name in image_files`; nothing
\* catches an exception of s3.download_file
DownloadFile ==
    /\ qry_pc = "download"
    /\ file_i < Len(result)
    /\ file_i' = file_i + 1
    /\ \E ok \in BOOLEAN :
         IF ok
         THEN /\ downloaded' = Append(downloaded, result[file_i + 1][1])
              /\ UNCHANGED <<qry_pc, qry_error>>
         ELSE /\ qry_pc' = "error"
              /\ qry_error' = "download_file"
              /\ UNCHANGED downloaded
    /\ UNCHANGED <<embVars, ingVars, concVars, extVars, object_embedding, K_SEARCHES,
                   search_calls, knn_response, hit_i, result, scores_tracked>>

\* the download loop is over
QueryDone ==
    /\ qry_pc = "download"
    /\ file_i = Len(result)
    /\ qry_pc' = "done"
    /\ UNCHANGED <<embVars, ingVars, concVars, extVars, qry_error, object_embedding, K_SEARCHES,
                   search_calls, knn_response, hit_i, result, scores_tracked,
                   file_i, downloaded>>

NextQuery ==
    \/ EmbedQuery
    \/ Search
    \/ DedupHit
    \/ PrintResult
    \/ DownloadFile
    \/ QueryDone

SpecQuery == InitQuery /\ [][NextQuery]_vars

\* the raw hit sequence as (key, score) pairs, and "a is a subsequence of b"
HitPairs == [a \in DOMAIN knn_response |->
                <<knn_response[a]._source, knn_response[a]._score>>]
IsSubsequence(a, b) ==
    \E f \in [DOMAIN a -> DOMAIN b] :
        /\ \A i, j \in DOMAIN a : i < j => f[i] < f[j]
        /\ \A i \in DOMAIN a : b[f[i]] = a[i]

\* C1: no two entries of the result list have the same score, and the
\* result list is a subsequence of the raw hit sequence (hits are filtered
\* out, never reordered).
C1_DistinctScoresSubsequence ==
    /\ \A i, j \in DOMAIN result : i # j => result[i][2] # result[j][2]
    /\ IsSubsequence(result, HitPairs)

\* C1's case: three hits, the first two of different keys and equal score,
\* the loop finished with the second one filtered out.
C1_Witness ==
    /\ qry_pc = "download"
    /\ Len(knn_response) = 3
    /\ knn_response[1]._score = knn_response[2]._score
    /\ knn_response[1]._source # knn_response[2]._source
    /\ Len(result) = 2
    /\ result[2] = HitPairs[3]

\* C10: the result list never has more than K_SEARCHES entries.
C10_AtMostKResults == Len(result) <= K_SEARCHES

\* C10's case: more documents in the index than k, the loop finished with
\* exactly k results.
C10_Witness ==
    /\ qry_pc = "done"
    /\ K_SEARCHES = 2
    /\ Len(index_docs) = 3
    /\ Len(result) = 2

\* C11: a query with k = 0 returns an empty result list, and a query with k
\* greater than the number of indexed documents returns all available hits
\* without an error.  Stated for a query whose vector is a vector: k does
\* not make the index reject the request; with k = 0 the finished loop
\* leaves result empty; with k above the index size every document comes
\* back as a hit and every score of the hits is in the result.
ScoresOf(pairs) == {pairs[a][2] : a \in DOMAIN pairs}
C11_KZeroEmptyKLargeAll ==
    (search_calls > 0 /\ ~IsNone(object_embedding)) =>
        /\ K_SEARCHES = 0 =>
              /\ qry_error # "RequestError"
              /\ qry_pc \in {"download", "done"} => result = <<>>
        /\ K_SEARCHES > Len(index_docs) =>
              /\ qry_error # "RequestError"
              /\ qry_pc \in {"loop", "download", "done"} =>
                    Len(knn_response) = Len(index_docs)
              /\ qry_pc \in {"download", "done"} =>
                    ScoresOf(result) = ScoresOf(HitPairs)

\* C13: a query whose vector does not have exactly D components (None
\* included) fails without the index search being issued, and a query whose
\* search call errors fails.
HasDComponents(vector) == vector.t = "list" /\ Len(vector.v) = D
C13_BadVectorFailsBeforeSearch ==
    /\ (~HasDComponents(object_embedding) /\ qry_pc \notin {"idle", "embedded"})
          => (qry_pc = "error" /\ search_calls = 0)
    /\ qry_error \in {"RequestError", "ConnectionError"} => qry_pc = "error"

\* C15: a raw hit is kept in the result exactly when no earlier hit of the
\* same raw hit sequence has its score: of each score the first hit is
\* emitted, whatever its key, in the order of the hits.
FirstOfScore ==
    {a \in 1 .. hit_i :
        \A b \in 1 .. (a - 1) : knn_response[b]._score # knn_response[a]._score}
C15_KeptIffFirstOfItsScore ==
    /\ Len(result) = Cardinality(FirstOfScore)
    /\ \A a \in FirstOfScore :
          result[Cardinality({b \in FirstOfScore : b <= a})] = HitPairs[a]

\* C15's case: scores (s, s, t) with s # t, the two hits of score s having
\* different keys, the whole query finished with the first and third hit.
C15_Witness ==
    /\ qry_pc = "done"
    /\ Len(knn_response) = 3
    /\ knn_response[1]._score = knn_response[2]._score
    /\ knn_response[2]._score # knn_response[3]._score
    /\ knn_response[1]._source # knn_response[2]._source
    /\ result = <<HitPairs[1], HitPairs[3]>>

\* the values create_image_embedding can return for the image stored under key
EmbeddingResults(key) ==
    LET image == b64encode(ImageBytes(key)) IN
    {create_image_embedding(image, resp).value :
        resp \in {x \in Responses(image) :
                    create_image_embedding(image, x).outcome = "return"}}

\* C16: the key list and the embedding list stay aligned: they have the same
\* length after every iteration, position i of the embedding list holds a result
\* of embedding the image stored under the key at position i, and every row of
\* the dataset and every document of the index pairs a key with a result of
\* embedding that key's own image.
C16_KeysAndEmbeddingsAligned ==
    /\ Len(image_embeddings) = Len(image_file_names)
    /\ \A i \in DOMAIN image_file_names :
          image_embeddings[i] \in EmbeddingResults(image_file_names[i])
    /\ \A i \in DOMAIN final_embeddings_dataset :
          final_embeddings_dataset[i].image_embedding
              \in EmbeddingResults(final_embeddings_dataset[i].image_key)
    /\ \A i \in DOMAIN index_docs :
          index_docs[i].vector \in EmbeddingResults(index_docs[i].key)

C16_Witness ==
    /\ ing_pc = "done"
    /\ Len(image_file_names) >= 2
    /\ \E a, b \in DOMAIN index_docs :
          /\ index_docs[a].key # index_docs[b].key
          /\ ~IsNone(index_docs[a].vector) /\ ~IsNone(index_docs[b].vector)
          /\ index_docs[a].vector # index_docs[b].vector

\* the embed loop of the current run stopped, or is between two iterations
InEmbedLoop == ing_pc = "embed" \/ (ing_pc = "aborted" /\ ing_error # "client.index")

\* C14 as stated: each item's index write is complete before the next item is
\* taken up, so while the embed loop runs, and when it stops at an item, every
\* item embedded so far has its document in the index.  (First run: the index
\* was empty when the run began.)
C14_EarlierItemsAlreadyWritten ==
    (runs = 1 /\ InEmbedLoop) =>
        \A j \in DOMAIN image_file_names :
            \E d \in DOMAIN index_docs :
                index_docs[d] = [vector |-> image_embeddings[j], key |-> image_file_names[j]]

\* the rows of the dataset the write loop has written so far
RowsWritten ==
    IF ing_pc = "aborted" /\ ing_error = "client.index" THEN row_i - 1 ELSE row_i

RowBody(j) ==
    [vector |-> final_embeddings_dataset[j].image_embedding,
     key |-> final_embeddings_dataset[j].image_key]

\* C14, amended: ingestion is two loops.  The first normalizes and embeds every
\* item, one after the other, and writes nothing to the index; only when it
\* has finished does the second write exactly one document per embedded item, in
\* order, carrying that item's key.  Hence when processing stops at an item of
\* the first loop nothing of this run has been written, and when it stops at a
\* row of the second loop exactly the rows before it have been written.
C14_EmbedAllThenWriteEach ==
    /\ [](ing_pc \in {"write", "done"} \/ (ing_pc = "aborted" /\ ing_error = "client.index")
            => /\ obj_i = Len(contents)
               /\ final_embeddings_dataset = DataFrame(image_file_names, image_embeddings)
               /\ RowsWritten <= Len(index_docs)
               /\ SubSeq(index_docs, Len(index_docs) - RowsWritten + 1, Len(index_docs))
                     = [j \in 1 .. RowsWritten |-> RowBody(j)])
    /\ [][/\ (InEmbedLoop /\ InEmbedLoop') => index_docs' = index_docs
          /\ index_docs' # index_docs =>
                /\ ing_pc = "write" /\ row_i' = row_i + 1
                /\ index_docs' = Append(index_docs, RowBody(row_i + 1))]_vars

C14_Witness ==
    /\ ing_pc = "aborted" /\ ing_error = "create_image_embedding"
    /\ obj_i = 2 /\ Len(image_file_names) = 1
    /\ ~IsNone(image_embeddings[1])
    /\ index_docs = <<>>

\* ---------------------------------------------------------- SpecConcurrent
\* Cell 6.1 run by several threads of the one kernel.  The cell is module-level
\* code: knn_response, result, scores_tracked, hit, score, item_id_ and
\* final_item are globals of the notebook, shared by every thread; only the
\* iterator of a `for` belongs to the thread running it.  A thread can be
\* preempted between any two statements, so each statement is one step.
\* (`id_ = hit["_id"]`, line 628, is never read and is left out.)

\* lines 627-636 run start to end without interruption
RECURSIVE DedupFrom(_, _, _, _)
DedupFrom(hits, i, res, tracked) ==
    IF i > Len(hits) THEN res
    ELSE IF ~Tracked(hits[i]._score, tracked)
         THEN DedupFrom(hits, i + 1, Append(res, <<hits[i]._source, hits[i]._score>>),
                        tracked \cup {hits[i]._score})
         ELSE DedupFrom(hits, i + 1, res, tracked)

RunAlone(hits) == DedupFrom(hits, 1, <<>>, {})

\* cell 5 has run and left a valid object_embedding; line 601 sets K_SEARCHES
InitConcurrent ==
    /\ bedrock_calls = 1
    /\ emb_trace = <<>>
    /\ bucket = {}
    /\ ing_pc = "idle" /\ ing_error = "none" /\ runs = 0
    /\ contents = <<>> /\ obj_i = 0
    /\ image_embeddings = <<>> /\ image_file_names = <<>>
    /\ final_embeddings_dataset = <<>> /\ row_i = 0
    /\ index_docs = [j \in 1 .. ConcDocs |-> Doc(j)]
    /\ ExtractIdle
    /\ qry_pc = "embedded" /\ qry_error = "none"
    /\ object_embedding = EmbeddingOf(b64encode(QueryImageBytes))
    /\ K_SEARCHES = MaxK /\ search_calls = 0
    /\ knn_response = <<>> /\ hit_i = 0
    /\ result = <<>> /\ scores_tracked = {}
    /\ file_i = 0 /\ downloaded = <<>>
    /\ thread_pc = [p \in ThreadIds |-> "search"]
    /\ thread_response = [p \in ThreadIds |-> <<>>]
    /\ thread_iter = [p \in ThreadIds |-> <<>>]
    /\ thread_pos = [p \in ThreadIds |-> 0]
    /\ thread_out = [p \in ThreadIds |-> <<>>]
    /\ cell_names = [hit |-> None, score |-> None, item_id_ |-> None, final_item |-> None]

\* what no statement of the dedup part of the cell touches
concFrame == <<embVars, ingVars, extVars, qry_pc, qry_error, object_embedding,
               K_SEARCHES, hit_i, file_i, downloaded>>

\* line 622: knn_response = client.search(index=INDEX_NAME, body=body).  The
\* thread has built its body of its own query vector, so the index scores the
\* documents for each search on its own.
ThreadSearch(p) ==
    /\ thread_pc[p] = "search"
    /\ RequestAccepted(object_embedding, K_SEARCHES)
    /\ search_calls' = search_calls + 1
    /\ \E ok \in BOOLEAN :
         IF ok
         THEN \E r \in client_search(index_docs, SearchSize(K_SEARCHES)) :
                /\ knn_response' = r
                /\ thread_response' = [thread_response EXCEPT ![p] = r]
                /\ thread_pc' = [thread_pc EXCEPT ![p] = "result"]
         ELSE /\ thread_pc' = [thread_pc EXCEPT ![p] = "error"]
              /\ UNCHANGED <<knn_response, thread_response>>
    /\ UNCHANGED <<concFrame, result, scores_tracked, thread_iter, thread_pos,
                   thread_out, cell_names>>

\* line 623: result = []
ThreadResetResult(p) ==
    /\ thread_pc[p] = "result"
    /\ result' = <<>>
    /\ thread_pc' = [thread_pc EXCEPT ![p] = "tracked"]
    /\ UNCHANGED <<concFrame, search_calls, knn_response, scores_tracked,
                   thread_response, thread_iter, thread_pos, thread_out, cell_names>>

\* line 624: scores_tracked = set()
ThreadResetTracked(p) ==
    /\ thread_pc[p] = "tracked"
    /\ scores_tracked' = {}
    /\ thread_pc' = [thread_pc EXCEPT ![p] = "for"]
    /\ UNCHANGED <<concFrame, search_calls, knn_response, result,
                   thread_response, thread_iter, thread_pos, thread_out, cell_names>>

\* line 627, entering the loop: the iterator is made of the list the global
\* knn_response holds now
ThreadFor(p) ==
    /\ thread_pc[p] = "for"
    /\ thread_iter' = [thread_iter EXCEPT ![p] = knn_response]
    /\ thread_pos' = [thread_pos EXCEPT ![p] = 0]
    /\ thread_pc' = [thread_pc EXCEPT ![p] = "next"]
    /\ UNCHANGED <<concFrame, search_calls, knn_response, result, scores_tracked,
                   thread_response, thread_out, cell_names>>

\* line 627, each round: bind the global hit to the next element, or leave the loop
ThreadNext(p) ==
    /\ thread_pc[p] = "next"
    /\ IF thread_pos[p] < Len(thread_iter[p])
       THEN /\ cell_names' = [cell_names EXCEPT !.hit = thread_iter[p][thread_pos[p] + 1]]
            /\ thread_pos' = [thread_pos EXCEPT ![p] = @ + 1]
            /\ thread_pc' = [thread_pc EXCEPT ![p] = "score"]
       ELSE /\ thread_pc' = [thread_pc EXCEPT ![p] = "print"]
            /\ UNCHANGED <<cell_names, thread_pos>>
    /\ UNCHANGED <<concFrame, search_calls, knn_response, result, scores_tracked,
                   thread_response, thread_iter, thread_out>>

\* line 629: score = hit["_score"]
ThreadScore(p) ==
    /\ thread_pc[p] = "score"
    /\ cell_names' = [cell_names EXCEPT !.score = cell_names.hit._score]
    /\ thread_pc' = [thread_pc EXCEPT ![p] = "item"]
    /\ UNCHANGED <<concFrame, search_calls, knn_response, result, scores_tracked,
                   thread_response, thread_iter, thread_pos, thread_out>>

\* line 630: item_id_ = hit["_source"][VECTOR_MAPPING]
ThreadItem(p) ==
    /\ thread_pc[p] = "item"
    /\ cell_names' = [cell_names EXCEPT !.item_id_ = cell_names.hit._source]
    /\ thread_pc' = [thread_pc EXCEPT ![p] = "if"]
    /\ UNCHANGED <<concFrame, search_calls, knn_response, result, scores_tracked,
                   thread_response, thread_iter, thread_pos, thread_out>>

\* line 633: if score not in scores_tracked
ThreadTest(p) ==
    /\ thread_pc[p] = "if"
    /\ thread_pc' = [thread_pc EXCEPT ![p] =
                        IF ~Tracked(cell_names.score, scores_tracked)
                        THEN "final_item" ELSE "next"]
    /\ UNCHANGED <<concFrame, search_calls, knn_response, result, scores_tracked,
                   thread_response, thread_iter, thread_pos, thread_out, cell_names>>

\* line 634: final_item = [item_id_, score]
ThreadFinalItem(p) ==
    /\ thread_pc[p] = "final_item"
    /\ cell_names' = [cell_names EXCEPT !.final_item = <<cell_names.item_id_, cell_names.score>>]
    /\ thread_pc' = [thread_pc EXCEPT ![p] = "append"]
    /\ UNCHANGED <<concFrame, search_calls, knn_response, result, scores_tracked,
                   thread_response, thread_iter, thread_pos, thread_out>>

\* line 635: result.append(final_item)
ThreadAppend(p) ==
    /\ thread_pc[p] = "append"
    /\ result' = Append(result, cell_names.final_item)
    /\ thread_pc' = [thread_pc EXCEPT ![p] = "add"]
    /\ UNCHANGED <<concFrame, search_calls, knn_response, scores_tracked,
                   thread_response, thread_iter, thread_pos, thread_out, cell_names>>

\* line 636: scores_tracked.add(score)
ThreadAdd(p) ==
    /\ thread_pc[p] = "add"
    /\ scores_tracked' = scores_tracked \cup {cell_names.score}
    /\ thread_pc' = [thread_pc EXCEPT ![p] = "next"]
    /\ UNCHANGED <<concFrame, search_calls, knn_response, result,
                   thread_response, thread_iter, thread_pos, thread_out, cell_names>>

\* line 639: print(... {result})
ThreadPrint(p) ==
    /\ thread_pc[p] = "print"
    /\ thread_out' = [thread_out EXCEPT ![p] = result]
    /\ thread_pc' = [thread_pc EXCEPT ![p] = "done"]
    /\ UNCHANGED <<concFrame, search_calls, knn_response, result, scores_tracked,
                   thread_response, thread_iter, thread_pos, cell_names>>

NextConcurrent ==
    \E p \in ThreadIds :
        \/ ThreadSearch(p)
        \/ ThreadResetResult(p)
        \/ ThreadResetTracked(p)
        \/ ThreadFor(p)
        \/ ThreadNext(p)
        \/ ThreadScore(p)
        \/ ThreadItem(p)
        \/ ThreadTest(p)
        \/ ThreadFinalItem(p)
        \/ ThreadAppend(p)
        \/ ThreadAdd(p)
        \/ ThreadPrint(p)

SpecConcurrent == InitConcurrent /\ [][NextConcurrent]_vars

\* C12: two queries whose steps interleave do not interfere: the result list
\* each one prints is the one it would have made of its own hits when run alone.
C12_EachQueryAsIfAlone ==
    \A p \in ThreadIds :
        thread_pc[p] = "done" => thread_out[p] = RunAlone(thread_response[p])

====
